---- MODULE Spec2Model ----
(***************************************************************************)
(* uuid-readable-rs: a 128-bit token (UUID) is cut into bit segments, each *)
(* segment picks a word of a category table (or is printed as a number),   *)
(* and the words are joined into a sentence; generate_inverse reverses the *)
(* NORMAL sentence.  src/src/lib.rs is modelled function by function.      *)
(*                                                                         *)
(* Strings are sequences of symbols.  A symbol is a pair <<kind, n>>: a    *)
(* whitespace character, a digit, a sign, a literal word of the template,  *)
(* or one entry of a word table (the tables of `mod data` hold whitespace- *)
(* free words; an entry is one indivisible symbol <<category, index>>).    *)
(***************************************************************************)
EXTENDS Integers, Sequences, FiniteSets, TLC

VARIABLES uuid, sentence, last, prevShort, nset, nedit

vars == <<uuid, sentence, last, prevShort, nset, nedit>>

\* ------------------------------------------------------------------ bounds

\* how many times the caller overwrites one byte of the token it holds
MaxSetByte == 1

\* how many times the caller alters the sentence it holds
MaxEdits == 1

\* ------------------------------------------------------------- characters

SP == <<"SP", 0>>
TAB == <<"TAB", 0>>
NL == <<"NL", 0>>
PLUS == <<"+", 0>>
MINUS == <<"-", 0>>
Digit(d) == <<"digit", d>>
Lit(w) == <<w, 0>>

IsDigit(c) == c[1] = "digit"

\* --------------------------------------------------------------- profiles

NORMAL == <<12, 11, 14, 13, 13, 10, 12, 11, 14, 5, 6, 7>>

SHORT == <<6, 6, 7, 8, 5>>

\* ------------------------------------------------------------ word tables
\* The tables live in `mod data`, outside lib.rs.  Each table is modelled as
\* a duplicate-free list of whitespace-free words, entry i of category cat
\* being the symbol <<cat, i>>, of the smallest length the masks require
\* (2^w for the widest slot that indexes it, lib.rs:86-107).

TableLen(cat) ==
    CASE cat = "NAMES" -> 2 ^ 14
      [] cat = "PERSONAL_NOUNS" -> 2 ^ 13
      [] cat = "PLACES" -> 2 ^ 13
      [] cat = "VERBS" -> 2 ^ 10
      [] cat = "ADJECTIVES" -> 2 ^ 8
      [] cat = "ANIMALS" -> 2 ^ 7

\* TABLE[i] as a string (the masks keep every index the encoders pass
\* inside the table)
Entry(cat, i) == <<(<<cat, i>>)>>

InTable(cat, i) == i \in 0 .. (TableLen(cat) - 1)

\* ------------------------------------------------------------------- bits

Reverse(s) == [i \in 1 .. Len(s) |-> s[Len(s) + 1 - i]]

RECURSIVE PushBits(_, _)
\* the loop of u16_to_bits: `length` times push b % 2, then b >>= 1
PushBits(b, length) ==
    IF length = 0 THEN <<>>
    ELSE <<b % 2>> \o PushBits(b \div 2, length - 1)

u16_to_bits(b, length) == Reverse(PushBits(b, length))

RECURSIVE to_bits(_)
to_bits(bytes) ==
    IF bytes = <<>> THEN <<>>
    ELSE u16_to_bits(Head(bytes), 8) \o to_bits(Tail(bytes))

RECURSIVE PartedFrom(_, _)
PartedFrom(values, i) ==
    IF i > Len(values) THEN <<>>
    ELSE u16_to_bits(values[i], NORMAL[i]) \o PartedFrom(values, i + 1)

to_bits_parted(values) == PartedFrom(values, 1)

RECURSIVE ToByteAcc(_, _)
\* _byte = 2 * _byte + b in a u16 (at most 14 bits are ever passed)
ToByteAcc(acc, bits) ==
    IF bits = <<>> THEN acc
    ELSE ToByteAcc((2 * acc + Head(bits)) % (2 ^ 16), Tail(bits))

RECURSIVE ToByteLittle(_)
ToByteLittle(bits) ==
    IF bits = <<>> THEN 0
    ELSE (Head(bits) + 2 * ToByteLittle(Tail(bits))) % (2 ^ 16)

to_byte_little(bits) == ToByteLittle(bits)

to_byte(bits) == ToByteAcc(0, bits)

Take(s, n) == SubSeq(s, 1, n)
Drop(s, n) == SubSeq(s, n + 1, Len(s))

RECURSIVE DrainAll(_, _)
\* the loop of partition: drain the first p bits, convert them, go on
DrainAll(parts, bits) ==
    IF parts = <<>> THEN <<>>
    ELSE <<to_byte(Take(bits, Head(parts)))>>
             \o DrainAll(Tail(parts), Drop(bits, Head(parts)))

RECURSIVE DrainAllBack(_, _)
DrainAllBack(parts, bits) ==
    IF parts = <<>> THEN <<>>
    ELSE <<to_byte(Drop(bits, Len(bits) - Head(parts)))>>
             \o DrainAllBack(Tail(parts), Take(bits, Len(bits) - Head(parts)))

Pad12(vals) == [i \in 1 .. 12 |-> IF i <= Len(vals) THEN vals[i] ELSE 0]

partition_from_back(parts, bytes) == Pad12(DrainAllBack(parts, to_bits(bytes)))

\* [usize; 12]: the values of the drained segments, the rest left 0
partition(parts, bytes) == Pad12(DrainAll(parts, to_bits(bytes)))

RECURSIVE SumSeq(_)
SumSeq(s) == IF s = <<>> THEN 0 ELSE Head(s) + SumSeq(Tail(s))

\* the bits still in `bits` when partition's loop ends
partition_rest(parts, bytes) == Drop(to_bits(bytes), SumSeq(parts))

de_partition_swapped(bits) ==
    [i \in 1 .. 16 |-> to_byte(SubSeq(bits, 8 * (16 - i) + 1, 8 * (17 - i))) % 256]

de_partition(bits) ==
    [i \in 1 .. 16 |-> to_byte(SubSeq(bits, 8 * (i - 1) + 1, 8 * i)) % 256]

\* ---------------------------------------------------------------- strings

RECURSIVE ToDecimal(_)
\* Display of an unsigned integer: decimal digits, no sign, no leading zero
ToDecimal(n) ==
    IF n < 10 THEN <<Digit(n)>>
    ELSE ToDecimal(n \div 10) \o <<Digit(n % 10)>>

RECURSIVE SplitFrom(_, _, _)
SplitFrom(s, i, cur) ==
    IF i > Len(s) THEN <<cur>>
    ELSE IF s[i] = SP THEN <<cur>> \o SplitFrom(s, i + 1, <<>>)
    ELSE SplitFrom(s, i + 1, Append(cur, s[i]))

IsWhite(c) == c \in {SP, TAB, NL}

RECURSIVE WsFrom(_, _, _)
WsFrom(s, i, cur) ==
    IF i > Len(s) THEN (IF cur = <<>> THEN <<>> ELSE <<cur>>)
    ELSE IF IsWhite(s[i])
         THEN (IF cur = <<>> THEN <<>> ELSE <<cur>>) \o WsFrom(s, i + 1, <<>>)
    ELSE WsFrom(s, i + 1, Append(cur, s[i]))

\* the maximal whitespace-free runs of s, in order
WsTokens(s) == WsFrom(s, 1, <<>>)

split_whitespace(s) == WsTokens(s)

\* str::split(' '): the pieces between single spaces, empty pieces included
split(s) == SplitFrom(s, 1, <<>>)

\* ---------------------------------------------------------------- results

ErrMalformed == <<"malformed", -1>>
ErrNotFound(cat, idx) == <<cat, idx>>
ErrParseEmpty == <<"ParseIntError", 0>>
ErrParseInvalidDigit == <<"ParseIntError", 1>>
ErrParsePosOverflow == <<"ParseIntError", 2>>

Ok(u) == [kind |-> "Ok", uuid |-> u, err |-> <<"", -1>>]
Err(e) == [kind |-> "Err", uuid |-> <<>>, err |-> e]
Panic == [kind |-> "Panic", uuid |-> <<>>, err |-> <<"index out of bounds", -1>>]

Some(v) == [ok |-> TRUE, v |-> v, err |-> <<"", -1>>]
Fail(e) == [ok |-> FALSE, v |-> -1, err |-> e]

\* ----------------------------------------------------------------- encode

_generate_noarticle(u) ==
    LET words == partition(NORMAL, u) IN
        Entry("NAMES", words[1]) \o <<SP>> \o Entry("NAMES", words[2]) \o <<SP>>
     \o Entry("NAMES", words[3]) \o <<SP>>
     \o Entry("PERSONAL_NOUNS", words[4]) \o <<SP>> \o <<Lit("of")>> \o <<SP>>
     \o Entry("PLACES", words[5]) \o <<SP>> \o Entry("VERBS", words[6]) \o <<SP>>
     \o Entry("NAMES", words[7]) \o <<SP>> \o Entry("NAMES", words[8]) \o <<SP>>
     \o Entry("NAMES", words[9]) \o <<SP>> \o <<Lit("and")>> \o <<SP>>
     \o ToDecimal(words[10]) \o <<SP>> \o Entry("ADJECTIVES", words[11]) \o <<SP>>
     \o Entry("ANIMALS", words[12])

_generate(u) ==
    LET words == partition(NORMAL, u) IN
        Entry("NAMES", words[1]) \o <<SP>> \o Entry("NAMES", words[2]) \o <<SP>>
     \o Entry("NAMES", words[3]) \o <<SP>> \o <<Lit("the")>> \o <<SP>>
     \o Entry("PERSONAL_NOUNS", words[4]) \o <<SP>> \o <<Lit("of")>> \o <<SP>>
     \o Entry("PLACES", words[5]) \o <<SP>> \o Entry("VERBS", words[6]) \o <<SP>>
     \o Entry("NAMES", words[7]) \o <<SP>> \o Entry("NAMES", words[8]) \o <<SP>>
     \o Entry("NAMES", words[9]) \o <<SP>> \o <<Lit("and")>> \o <<SP>>
     \o ToDecimal(words[10]) \o <<SP>> \o Entry("ADJECTIVES", words[11]) \o <<SP>>
     \o Entry("ANIMALS", words[12])

generate_from(u) == _generate(u)

_short(u) ==
    LET words == partition(SHORT, u) IN
        Entry("NAMES", words[1]) \o <<SP>> \o Entry("VERBS", words[2]) \o <<SP>>
     \o ToDecimal(words[3]) \o <<SP>> \o Entry("ADJECTIVES", words[4]) \o <<SP>>
     \o Entry("ANIMALS", words[5])

short_from(u) == _short(u)

\* ----------------------------------------------------------------- decode

\* TABLE.iter().position(|&r| r == tok): the index of the first entry equal
\* to tok.  Entry i of the table is the one-symbol string <<cat, i>> and no
\* two entries are equal, so the search finds i exactly for that string.
position(cat, tok) ==
    IF Len(tok) = 1 /\ tok[1][1] = cat /\ InTable(cat, tok[1][2])
    THEN tok[1][2]
    ELSE -1

RECURSIVE ParseDigits(_, _, _)
ParseDigits(tok, i, acc) ==
    IF i > Len(tok) THEN Some(acc)
    ELSE IF ~IsDigit(tok[i]) THEN Fail(ErrParseInvalidDigit)
    ELSE IF 10 * acc + tok[i][2] >= 2 ^ 16 THEN Fail(ErrParsePosOverflow)
    ELSE ParseDigits(tok, i + 1, 10 * acc + tok[i][2])

\* str::parse::<u16>(): an optional '+', then decimal digits, no trimming
parse_u16(tok) ==
    IF tok = <<>> THEN Fail(ErrParseEmpty)
    ELSE IF Len(tok) = 1 /\ tok[1] \in {PLUS, MINUS} THEN Fail(ErrParseInvalidDigit)
    ELSE IF tok[1] = PLUS THEN ParseDigits(tok, 2, 0)
    ELSE ParseDigits(tok, 1, 0)

\* the twelve elements of index_values, in the order they are evaluated:
\* the table searched (or NUMBER) and the index into `splitted`
Slots ==
    << <<"NAMES", 0>>, <<"NAMES", 1>>, <<"NAMES", 2>>, <<"PERSONAL_NOUNS", 4>>,
       <<"PLACES", 6>>, <<"VERBS", 7>>, <<"NAMES", 8>>, <<"NAMES", 9>>,
       <<"NAMES", 10>>, <<"NUMBER", 12>>, <<"ADJECTIVES", 13>>, <<"ANIMALS", 14>> >>

MinTokens == 15

too_short_off_by_one(splitted) == Len(splitted) < MinTokens - 1

\* the sanity check on the number of pieces
too_short(splitted) == Len(splitted) < MinTokens

lookup_or_zero(cat, idx, tok) ==
    IF cat = "NUMBER" THEN parse_u16(tok)
    ELSE IF position(cat, tok) < 0 THEN Some(0)
    ELSE Some(position(cat, tok) % (2 ^ 16))

\* one element of index_values: `.position(..).context("CAT (idx) not found")?
\* as u16`, or `.parse::<u16>()?` for the number
lookup(cat, idx, tok) ==
    IF cat = "NUMBER" THEN parse_u16(tok)
    ELSE IF position(cat, tok) < 0 THEN Fail(ErrNotFound(cat, idx))
    ELSE Some(position(cat, tok) % (2 ^ 16))

RECURSIVE IndexValues(_, _, _)
\* the array literal: elements are evaluated in order, the first `?` that
\* fails returns its error; splitted[idx] past the end panics
IndexValues(splitted, k, acc) ==
    IF k > Len(Slots) THEN Some(acc)
    ELSE IF Slots[k][2] + 1 > Len(splitted) THEN Fail(<<"panic", Slots[k][2]>>)
    ELSE LET r == lookup(Slots[k][1], Slots[k][2], splitted[Slots[k][2] + 1]) IN
         IF r.ok THEN IndexValues(splitted, k + 1, Append(acc, r.v)) ELSE r

generate_inverse(s) ==
    LET splitted == split(s) IN
    IF too_short(splitted) THEN Err(ErrMalformed)
    ELSE LET iv == IndexValues(splitted, 1, <<>>) IN
         IF iv.ok THEN Ok(de_partition(to_bits_parted(iv.v)))
         ELSE IF iv.err[1] = "panic" THEN Panic
         ELSE Err(iv.err)

\* ------------------------------------------------------------------ state
\* The library keeps no state.  The state is what its caller holds: a token,
\* a string, and the record of the last call made (function, argument,
\* returned value).  prevShort keeps the record of the short_from call made
\* just before the last one, when both were short_from calls.

NoRes == [kind |-> "None", uuid |-> <<>>, err |-> <<"", -1>>]

NoCall == [fn |-> "none", uuid |-> <<>>, str |-> <<>>, words |-> <<>>,
           rest |-> -1, res |-> NoRes]

\* the token of test_generate, test_short and test_inverse, and the two
\* boundary tokens of test_compatibility
TestUuid == <<14, 224, 1, 199, 18, 243, 75, 41, 164, 204, 244, 136, 56, 179, 88, 122>>
ZeroUuid == [i \in 1 .. 16 |-> 0]
FullUuid == [i \in 1 .. 16 |-> 255]

BaseTokens == {TestUuid, ZeroUuid, FullUuid}

\* the values the caller writes into a byte of the token
ByteVals == {0, 170, 255}

Init ==
    /\ uuid \in BaseTokens
    /\ sentence = <<>>
    /\ last = NoCall
    /\ prevShort = NoCall
    /\ nset = 0
    /\ nedit = 0

\* the caller overwrites one byte of the token
SetByte ==
    /\ nset < MaxSetByte
    /\ \E i \in 1 .. 16, b \in ByteVals :
          /\ b # uuid[i]
          /\ uuid' = [uuid EXCEPT ![i] = b]
    /\ nset' = nset + 1
    /\ UNCHANGED <<sentence, last, prevShort, nedit>>

GenerateFrom ==
    /\ sentence' = generate_from(uuid)
    /\ last' = [fn |-> "generate_from", uuid |-> uuid, str |-> sentence',
                words |-> partition(NORMAL, uuid),
                rest |-> Len(partition_rest(NORMAL, uuid)), res |-> NoRes]
    /\ prevShort' = NoCall
    /\ nedit' = 0
    /\ UNCHANGED <<uuid, nset>>

ShortFrom ==
    /\ sentence' = short_from(uuid)
    /\ last' = [fn |-> "short_from", uuid |-> uuid, str |-> sentence',
                words |-> partition(SHORT, uuid),
                rest |-> Len(partition_rest(SHORT, uuid)), res |-> NoRes]
    /\ prevShort' = IF last.fn = "short_from" THEN last ELSE NoCall
    /\ nedit' = 0
    /\ UNCHANGED <<uuid, nset>>

GenerateInverse ==
    /\ last' = [fn |-> "generate_inverse", uuid |-> <<>>, str |-> sentence,
                words |-> <<>>, rest |-> -1, res |-> generate_inverse(sentence)]
    /\ prevShort' = NoCall
    /\ UNCHANGED <<uuid, sentence, nset, nedit>>

Next == SetByte \/ GenerateFrom \/ ShortFrom \/ GenerateInverse

Spec == Init /\ [][Next]_vars

\* ------------------------------------------------- the caller edits a string

RECURSIVE Join(_)
Join(pieces) ==
    IF Len(pieces) = 1 THEN pieces[1]
    ELSE pieces[1] \o <<SP>> \o Join(Tail(pieces))

SlotAt(idx) == {k \in 1 .. Len(Slots) : Slots[k][2] = idx}

OtherCat(cat) == IF cat = "NAMES" THEN "PLACES" ELSE "NAMES"

\* what the caller may write in place of the piece at index idx
TamperTokens(idx) ==
    IF idx = 12 THEN
        { <<Digit(3), Digit(2)>>,
          <<Digit(6), Digit(5), Digit(5), Digit(3), Digit(5)>>,
          <<Digit(6), Digit(5), Digit(5), Digit(3), Digit(6)>>,
          <<PLUS, Digit(5)>>, <<Digit(0), Digit(5)>>, <<MINUS, Digit(1)>>,
          <<>>, <<Lit("???")>> }
    ELSE IF SlotAt(idx) # {} THEN
        LET cat == Slots[CHOOSE k \in SlotAt(idx) : TRUE][1] IN
        { Entry(cat, TableLen(cat) - 1), Entry(cat, 5), Entry(OtherCat(cat), 5),
          <<Lit("???")>> }
    ELSE { <<Lit("by")>>, <<>> }

ReplaceToken ==
    /\ nedit < MaxEdits
    /\ sentence # <<>>
    /\ LET pieces == split(sentence) IN
       \E i \in 1 .. Len(pieces) : \E tok \in TamperTokens(i - 1) :
          /\ tok # pieces[i]
          /\ sentence' = Join([pieces EXCEPT ![i] = tok])
    /\ nedit' = nedit + 1
    /\ UNCHANGED <<uuid, last, prevShort, nset>>

InsertSpace ==
    /\ nedit < MaxEdits
    /\ sentence # <<>>
    /\ \E pos \in 0 .. Len(sentence) :
          sentence' = Take(sentence, pos) \o <<SP>> \o Drop(sentence, pos)
    /\ nedit' = nedit + 1
    /\ UNCHANGED <<uuid, last, prevShort, nset>>

ReplaceSeparator ==
    /\ nedit < MaxEdits
    /\ \E pos \in 1 .. Len(sentence) :
          /\ sentence[pos] = SP
          /\ sentence' = [sentence EXCEPT ![pos] = TAB]
    /\ nedit' = nedit + 1
    /\ UNCHANGED <<uuid, last, prevShort, nset>>

Truncate ==
    /\ nedit < MaxEdits
    /\ LET pieces == split(sentence) IN
       \E n \in 1 .. (Len(pieces) - 1) :
          sentence' = Join(Take(pieces, n))
    /\ nedit' = nedit + 1
    /\ UNCHANGED <<uuid, last, prevShort, nset>>

AppendSuffix ==
    /\ nedit < MaxEdits
    /\ sentence # <<>>
    /\ \E suffix \in { <<SP, Lit("???")>>, <<NL>> } :
          sentence' = sentence \o suffix
    /\ nedit' = nedit + 1
    /\ UNCHANGED <<uuid, last, prevShort, nset>>

NextDecode ==
    \/ GenerateFrom
    \/ ReplaceToken
    \/ InsertSpace
    \/ ReplaceSeparator
    \/ Truncate
    \/ AppendSuffix
    \/ GenerateInverse

SpecDecode == Init /\ [][NextDecode]_vars

\* ------------------------------------------------- what the claims speak of

\* bit n (0 = first) of the token, most significant bit of each byte first
BitOf(t, n) == (t[(n \div 8) + 1] \div (2 ^ (7 - (n % 8)))) % 2

RECURSIVE SegFrom(_, _, _)
\* the big-endian integer formed by bits [off, off + w) of the token
SegFrom(t, off, w) ==
    IF w = 0 THEN 0
    ELSE BitOf(t, off) * (2 ^ (w - 1)) + SegFrom(t, off + 1, w - 1)

\* w_1 + .. + w_(i-1)
Offset(parts, i) == SumSeq(Take(parts, i - 1))

Seg(t, parts, i) == SegFrom(t, Offset(parts, i), parts[i])

Lead32(t) == Take(t, 4)

CountSP(s) == Cardinality({i \in 1 .. Len(s) : s[i] = SP})

\* a decimal numeral: digits, with an optional leading plus sign
NumeralDigits(tok) == IF tok # <<>> /\ tok[1] = PLUS THEN Tail(tok) ELSE tok

IsNumeral(tok) ==
    /\ NumeralDigits(tok) # <<>>
    /\ \A i \in 1 .. Len(NumeralDigits(tok)) : IsDigit(NumeralDigits(tok)[i])

RECURSIVE DigitsValue(_)
DigitsValue(ds) ==
    IF ds = <<>> THEN 0
    ELSE 10 * DigitsValue(Take(ds, Len(ds) - 1)) + ds[Len(ds)][2]

NumeralValue(tok) == DigitsValue(NumeralDigits(tok))

\* the numeral of a value below 100, without sign or leading zero
Decimal2(v) == IF v < 10 THEN <<Digit(v)>> ELSE <<Digit(v \div 10), Digit(v % 10)>>

WordSlotIdx == {0, 1, 2, 4, 6, 7, 8, 9, 10, 13, 14}

CatOf(idx) ==
    CASE idx \in {0, 1, 2, 8, 9, 10} -> "NAMES"
      [] idx = 4 -> "PERSONAL_NOUNS"
      [] idx = 6 -> "PLACES"
      [] idx = 7 -> "VERBS"
      [] idx = 13 -> "ADJECTIVES"
      [] idx = 14 -> "ANIMALS"

IsEntryOf(cat, tok) ==
    /\ Len(tok) = 1
    /\ tok[1][1] = cat
    /\ tok[1][2] >= 0
    /\ tok[1][2] < TableLen(cat)

SpacePos(s) == {i \in 1 .. Len(s) : s[i] = SP}

\* the position of the k-th space of s; 0 and Len(s) + 1 bracket the string
NthSpace(s, k) ==
    IF k = 0 THEN 0
    ELSE IF k > Cardinality(SpacePos(s)) THEN Len(s) + 1
    ELSE CHOOSE p \in SpacePos(s) :
            Cardinality({q \in SpacePos(s) : q < p}) = k - 1

\* piece idx (from 0) of s cut at its single spaces
PieceAt(s, idx) == SubSeq(s, NthSpace(s, idx) + 1, NthSpace(s, idx + 1) - 1)

SlotIdx == WordSlotIdx \cup {12}

SlotPiecesIntact(s, g) ==
    /\ CountSP(s) + 1 >= 15
    /\ \A idx \in SlotIdx : PieceAt(s, idx) = PieceAt(g, idx)

BadSlots(t) == {i \in WordSlotIdx : ~IsEntryOf(CatOf(i), t[i + 1])}

FirstBad(t) == CHOOSE i \in BadSlots(t) : \A j \in BadSlots(t) : i <= j

Inverted == last.fn = "generate_inverse"

\* ----------------------------------------------------------------- claims

\* C1: decoding the NORMAL sentence of a token gives that token back:
\* generate_inverse(generate_from(T)) = Ok(T), boundary tokens included.
C1_RoundTrip ==
    (Inverted /\ last.str = generate_from(uuid)) => last.res = Ok(uuid)

C1_Witness ==
    /\ Inverted
    /\ last.str = generate_from(uuid)
    /\ last.res = Ok(uuid)
    /\ uuid \notin BaseTokens

\* C2: short_from(T) is six single-space-separated tokens
\* '<name> <verb> by <number> <adjective> <animal>', the literal "by"
\* standing between the verb and the decimal number.
C2_ShortHasBy ==
    last.fn = "short_from" =>
        LET t == split(last.str) IN
        /\ Len(t) = 6
        /\ IsEntryOf("NAMES", t[1])
        /\ IsEntryOf("VERBS", t[2])
        /\ t[3] = <<Lit("by")>>
        /\ IsNumeral(t[4])
        /\ IsEntryOf("ADJECTIVES", t[5])
        /\ IsEntryOf("ANIMALS", t[6])

\* C3: two short_from calls on tokens with the same leading 32 bits return
\* the same sentence: the trailing 96 bits have no influence.
C3_ShortIgnoresTail ==
    (/\ last.fn = "short_from"
     /\ prevShort.fn = "short_from"
     /\ Lead32(prevShort.uuid) = Lead32(last.uuid)) => last.str = prevShort.str

C3_Witness ==
    /\ last.fn = "short_from"
    /\ prevShort.fn = "short_from"
    /\ Lead32(prevShort.uuid) = Lead32(last.uuid)
    /\ prevShort.uuid # last.uuid
    /\ last.str = prevShort.str

\* C4: generate_inverse returns an error whenever the piece at index 12 is
\* not a decimal non-negative integer in 0..31; a numeral in 32..65535 is
\* rejected, not decoded.
C4_NumeralRangeRejected ==
    (/\ Inverted
     /\ Len(split(last.str)) >= 15
     /\ ~(/\ IsNumeral(split(last.str)[13])
          /\ NumeralValue(split(last.str)[13]) <= 31)) => last.res.kind = "Err"

\* C5: whenever generate_inverse(s) returns Ok(T), generate_from(T) = s:
\* no token is returned for a sentence that is not the encoding of it.
C5_OkOnlyForEncoding ==
    (Inverted /\ last.res.kind = "Ok") => generate_from(last.res.uuid) = last.str

\* C6: an input with fewer than 15 space-separated pieces gets the
\* malformed-sentence error, whatever the pieces are: no lookup error, no
\* parse error, no panic, no token.
C6_TooFewTokens ==
    (Inverted /\ CountSP(last.str) + 1 < 15) => last.res = Err(ErrMalformed)

C6_Witness ==
    /\ Inverted
    /\ CountSP(last.str) + 1 = 14
    /\ last.res = Err(ErrMalformed)

\* C7 as stated: with at least 15 pieces and some word slot holding a piece
\* that is no entry of its category, generate_inverse returns an error that
\* names the category and index of the first such slot in template order.
C7_FirstBadSlotNamed ==
    (/\ Inverted
     /\ Len(split(last.str)) >= 15
     /\ BadSlots(split(last.str)) # {}) =>
        LET fb == FirstBad(split(last.str)) IN
        last.res = Err(ErrNotFound(CatOf(fb), fb))

\* C7 as amended: in that case an error is returned and no token; it names
\* the category and index of the first such slot, unless that slot is 13 or
\* 14 and the numeral at index 12 does not parse as a 16-bit unsigned
\* integer: then the numeral's parse error is returned.
C7_FirstFailureReported ==
    (/\ Inverted
     /\ Len(split(last.str)) >= 15
     /\ BadSlots(split(last.str)) # {}) =>
        LET t == split(last.str)
            fb == FirstBad(t)
            numeralOk == IsNumeral(t[13]) /\ NumeralValue(t[13]) < 2 ^ 16
        IN  /\ last.res.kind = "Err"
            /\ last.res.uuid = <<>>
            /\ IF fb < 12 \/ numeralOk
               THEN last.res.err = ErrNotFound(CatOf(fb), fb)
               ELSE last.res.err[1] = "ParseIntError"

C7_Witness ==
    /\ Inverted
    /\ Len(split(last.str)) >= 15
    /\ BadSlots(split(last.str)) # {}
    /\ FirstBad(split(last.str)) = 13
    /\ last.res = Err(ErrNotFound("ADJECTIVES", 13))

\* C8: generate_from(T) is exactly the 15 tokens NAMES[v0] NAMES[v1]
\* NAMES[v2] the PERSONAL_NOUNS[v3] of PLACES[v4] VERBS[v5] NAMES[v6]
\* NAMES[v7] NAMES[v8] and v9 ADJECTIVES[v10] ANIMALS[v11], joined by single
\* spaces, v9 in decimal without sign or leading zero and 0 <= v9 <= 31.
C8_NormalSentence ==
    last.fn = "generate_from" =>
        LET v(i) == Seg(last.uuid, NORMAL, i + 1) IN
        /\ v(9) \in 0 .. 31
        /\ last.str =
              << <<"NAMES", v(0)>>, SP, <<"NAMES", v(1)>>, SP, <<"NAMES", v(2)>>, SP,
                 Lit("the"), SP, <<"PERSONAL_NOUNS", v(3)>>, SP, Lit("of"), SP,
                 <<"PLACES", v(4)>>, SP, <<"VERBS", v(5)>>, SP, <<"NAMES", v(6)>>, SP,
                 <<"NAMES", v(7)>>, SP, <<"NAMES", v(8)>>, SP, Lit("and"), SP >>
              \o Decimal2(v(9))
              \o << SP, <<"ADJECTIVES", v(10)>>, SP, <<"ANIMALS", v(11)>> >>

C8_Witness ==
    /\ last.fn = "generate_from"
    /\ last.uuid = TestUuid
    /\ split(last.str)[13] = <<Digit(2), Digit(6)>>
    /\ Len(split(last.str)) = 15

\* C9: the i-th value of partition is the big-endian integer of token bits
\* [w_1+..+w_(i-1), w_1+..+w_i), so 0 <= value_i < 2^w_i; NORMAL's twelve
\* values use all 128 bits, none is left over.
C9_Partition ==
    last.fn \in {"generate_from", "short_from"} =>
        LET parts == IF last.fn = "generate_from" THEN NORMAL ELSE SHORT IN
        /\ \A i \in 1 .. Len(parts) :
              /\ last.words[i] = Seg(last.uuid, parts, i)
              /\ last.words[i] >= 0
              /\ last.words[i] < 2 ^ parts[i]
        /\ last.rest = 128 - SumSeq(parts)
        /\ last.fn = "generate_from" => last.rest = 0

C9_Witness ==
    /\ last.fn = "generate_from"
    /\ last.uuid = TestUuid
    /\ last.words[10] = 26
    /\ last.words[12] = 122
    /\ last.rest = 0

====
